---- MODULE Spec2Model ----
(***************************************************************************)
(* Model of the pari-mutuel betting program in src/program-rust/src/lib.rs *)
(* Records (accounts) hold a lamport balance and a fixed-layout data       *)
(* image; four instructions act on them: Initialize, AddBet, SetWinner,    *)
(* Withdraw.  A failing instruction leaves every account as it was.        *)
(***************************************************************************)
EXTENDS Integers, FiniteSets, Sequences, TLC

\* ---------------------------------------------------------------- bounds
MaxClock == 2
\* u64 is modelled as an unsigned word of U64Bits bits (arithmetic % 2^U64Bits)
U64Bits == 24

U64Mod == 2 ^ U64Bits

\* ------------------------------------------------------ program constants
COMISSION == 3
BETS_RENT_EXCEMPTION == 1405920
\* Rent sysvar's exemption minimum for an account of EventBets' size.
EVENT_RENT_EXEMPTION == 1294560

\* ------------------------------------------------------------- identities
NoKey == "0"
ProgramId == "program"
Users == {"u1", "u2"}
\* the identities that create events, and the identities bets are placed for
Arbiters == {"u1"}
Betors == {"u2"}
Events == {"e1", "e2"}
BetAccs == {"b1", "b2"}
\* deadlines an Initialize request may carry
Deadlines == {1}
\* lamports each staging (bet) account holds when it is handed to AddBet:
\* above and below the rent exemption minimum
StakeLamports ==
    [b \in BetAccs |->
        CASE b = "b1" -> BETS_RENT_EXCEMPTION + 100
          [] b = "b2" -> BETS_RENT_EXCEMPTION - 5]
\* every modelled record is administered by the program
owner_of(acc) == ProgramId

\* ------------------------------------------------------------ MatchOutcome
Unknown == "Unknown"
TeamA == "TeamA"
TeamB == "TeamB"
Draw == "Draw"
Withdrawn == "Withdrawn"
MatchOutcome == {Unknown, TeamA, TeamB, Draw, Withdrawn}

pack_match_outcome(value) ==
    CASE value = Unknown -> 0
      [] value = TeamA -> 1
      [] value = TeamB -> 2
      [] value = Draw -> 3
      [] value = Withdrawn -> 255

unpack_accepts_withdrawn(src) ==
    CASE src = 0 -> [ok |-> TRUE, v |-> Unknown]
      [] src = 1 -> [ok |-> TRUE, v |-> TeamA]
      [] src = 2 -> [ok |-> TRUE, v |-> TeamB]
      [] src = 3 -> [ok |-> TRUE, v |-> Draw]
      [] src = 255 -> [ok |-> TRUE, v |-> Withdrawn]
      [] OTHER -> [ok |-> FALSE, v |-> "InvalidAccountData"]

unpack_match_outcome(src) ==
    CASE src = 0 -> [ok |-> TRUE, v |-> Unknown]
      [] src = 1 -> [ok |-> TRUE, v |-> TeamA]
      [] src = 2 -> [ok |-> TRUE, v |-> TeamB]
      [] src = 3 -> [ok |-> TRUE, v |-> Draw]
      [] OTHER -> [ok |-> FALSE, v |-> "InvalidAccountData"]

\* ------------------------------------------------------------------ state
VARIABLES
    clock,            \* Clock sysvar unix_timestamp
    lamports,         \* lamports held by every account (events, bet accounts, users)
    events,           \* EventBets image of every event account
    bets,             \* Bet image of every bet account
    last,             \* the last instruction processed and its result
    judged,           \* history: the events on which a SetWinner has succeeded
    withdrawn         \* history: the bet accounts on which a Withdraw has succeeded

vars == <<clock, lamports, events, bets, last, judged, withdrawn>>

Accounts == Events \cup BetAccs \cup Users

EventBetsZero ==
    [is_initialized |-> FALSE, arbiter |-> NoKey, bets_allowed_until_ts |-> 0,
     outcome |-> 0, balance_a |-> 0, balance_b |-> 0]

BetZero ==
    [is_initialized |-> FALSE, betor |-> NoKey, event |-> NoKey, amount |-> 0,
     outcome |-> 0]

NoCall ==
    [op |-> "none", ok |-> TRUE, err |-> "", who |-> NoKey, signer |-> FALSE,
     event |-> NoKey, bet |-> NoKey]

InitialLamports ==
    [a \in Accounts |->
        IF a \in Events THEN EVENT_RENT_EXEMPTION
        ELSE IF a \in BetAccs THEN StakeLamports[a]
        ELSE 0]

Init ==
    /\ clock = 0
    /\ lamports = InitialLamports
    /\ events = [e \in Events |-> EventBetsZero]
    /\ bets = [b \in BetAccs |-> BetZero]
    /\ last = NoCall
    /\ judged = {}
    /\ withdrawn = {}

\* --------------------------------------------------------------- helpers
\* result of an instruction: the accounts as it leaves them
Fail(e) == [ok |-> FALSE, err |-> e, lamports |-> lamports, events |-> events, bets |-> bets]
Done(l, ev, bt) == [ok |-> TRUE, err |-> "", lamports |-> l, events |-> ev, bets |-> bt]

\* u64 arithmetic.  The crate's build profile is not part of the source: with
\* overflow checks an out-of-range result panics, without them it wraps.
u64(x, overflow_checks) ==
    [panic |-> (x < 0 \/ x >= U64Mod) /\ overflow_checks,
     v |-> (x + U64Mod) % U64Mod]

cmp_pubkeys_always(a, b) == TRUE

cmp_pubkeys(a, b) == a = b

is_exempt(lamps) == lamps >= EVENT_RENT_EXEMPTION

never_initialized(b) == FALSE

event_already_initialized(b) == b.is_initialized

never_completed(outcome) == FALSE

event_completed(outcome) == outcome # Unknown

always_first_judgement(outcome) == TRUE

first_judgement(outcome) == outcome = Unknown

never_closed(now, until) == FALSE

bets_closed(now, until) == now > until

\* ------------------------------------------------------------- Initialize
process_initialize(owner, is_signer, bets_info, bets_accepted_until) ==
    LET b == events[bets_info] IN
    IF ~is_signer THEN Fail("MissingRequiredSignature")
    ELSE IF ~is_exempt(lamports[bets_info]) THEN Fail("InvalidAccountData")
    ELSE IF ~cmp_pubkeys(ProgramId, owner_of(bets_info)) THEN Fail("InvalidAccountData")
    ELSE IF event_already_initialized(b) THEN Fail("AccountAlreadyInitialized")
    ELSE IF bets_accepted_until < clock THEN Fail("InvalidInstructionData")
    ELSE Done(lamports,
              [events EXCEPT ![bets_info] =
                  [is_initialized |-> TRUE, arbiter |-> owner,
                   bets_allowed_until_ts |-> bets_accepted_until,
                   outcome |-> 0, balance_a |-> 0, balance_b |-> 0]],
              bets)

\* ----------------------------------------------------------------- AddBet
process_add_bet(betor, bets_info_acc, this_bet_acc, choice, overflow_checks) ==
    LET b == events[bets_info_acc]
        this_bet == bets[this_bet_acc]
        outcome == unpack_match_outcome(b.outcome)
        amount == u64(lamports[this_bet_acc] - BETS_RENT_EXCEMPTION, overflow_checks)
        side == IF choice = TeamA THEN b.balance_a ELSE b.balance_b
        balance == u64(side + amount.v, overflow_checks)
        held == u64(lamports[bets_info_acc] + amount.v, overflow_checks)
    IN
    IF ~cmp_pubkeys(ProgramId, owner_of(bets_info_acc)) THEN Fail("InvalidAccountData")
    ELSE IF ~cmp_pubkeys(ProgramId, owner_of(this_bet_acc)) THEN Fail("InvalidAccountData")
    ELSE IF ~b.is_initialized THEN Fail("InvalidAccountData")
    ELSE IF this_bet.is_initialized THEN Fail("InvalidAccountData")
    ELSE IF bets_closed(clock, b.bets_allowed_until_ts) THEN Fail("InvalidAccountData")
    ELSE IF ~outcome.ok THEN Fail(outcome.v)
    ELSE IF event_completed(outcome.v) THEN Fail("InvalidAccountData")
    ELSE IF amount.panic THEN Fail("Panic")
    ELSE IF choice \notin {TeamA, TeamB} THEN Fail("InvalidAccountData")
    ELSE IF balance.panic \/ held.panic THEN Fail("Panic")
    ELSE Done([lamports EXCEPT ![bets_info_acc] = held.v,
                               ![this_bet_acc] = BETS_RENT_EXCEMPTION],
              [events EXCEPT ![bets_info_acc] =
                  IF choice = TeamA THEN [b EXCEPT !.balance_a = balance.v]
                  ELSE [b EXCEPT !.balance_b = balance.v]],
              [bets EXCEPT ![this_bet_acc] =
                  [is_initialized |-> TRUE, betor |-> betor, event |-> bets_info_acc,
                   amount |-> amount.v, outcome |-> pack_match_outcome(choice)]])

\* -------------------------------------------------------------- SetWinner
\* SetWinner as it would be with the comission moved before the check of result
set_winner_charges_first(owner, is_signer, bets_info, result) ==
    LET b == events[bets_info]
        comission == (lamports[bets_info] * COMISSION) \div 100
        charged == [lamports EXCEPT ![bets_info] = @ - comission,
                                    ![owner] = @ + comission]
    IN
    IF ~is_signer THEN Fail("MissingRequiredSignature")
    ELSE IF ~b.is_initialized THEN Fail("InvalidAccountData")
    ELSE IF clock < b.bets_allowed_until_ts THEN Fail("InvalidAccountData")
    ELSE IF ~cmp_pubkeys(b.arbiter, owner) THEN Fail("InvalidAccountData")
    ELSE IF result = Unknown
         THEN [Fail("InvalidAccountData") EXCEPT !.lamports = charged]
    ELSE Done(charged,
              [events EXCEPT ![bets_info] = [b EXCEPT !.outcome = pack_match_outcome(result)]],
              bets)

\* (the lamports of one account times COMISSION, and a credit to an account,
\* stay below the lamport supply's reach of u64; comission <= the lamports held)
process_set_winner(owner, is_signer, bets_info, result) ==
    LET b == events[bets_info]
        outcome == unpack_match_outcome(b.outcome)
        comission == (lamports[bets_info] * COMISSION) \div 100
        charged == IF first_judgement(outcome.v)
                   THEN [lamports EXCEPT ![bets_info] = @ - comission,
                                         ![owner] = @ + comission]
                   ELSE lamports
    IN
    IF ~is_signer THEN Fail("MissingRequiredSignature")
    ELSE IF ~b.is_initialized THEN Fail("InvalidAccountData")
    ELSE IF clock < b.bets_allowed_until_ts THEN Fail("InvalidAccountData")
    ELSE IF ~cmp_pubkeys(b.arbiter, owner) THEN Fail("InvalidAccountData")
    ELSE IF result = Unknown THEN Fail("InvalidAccountData")
    ELSE IF ~outcome.ok THEN Fail(outcome.v)
    ELSE Done(charged,
              [events EXCEPT ![bets_info] = [b EXCEPT !.outcome = pack_match_outcome(result)]],
              bets)

\* --------------------------------------------------------------- Withdraw
\* the match of lines 348-377, in u128: [panic, v]
withdraw_balance(b, this_bet, r, c) ==
    CASE r = TeamA /\ c = TeamA ->
            IF b.balance_a = 0 THEN [panic |-> TRUE, v |-> 0]
            ELSE [panic |-> FALSE,
                  v |-> ((((1 * b.balance_b) * this_bet.amount) \div b.balance_a
                          + this_bet.amount) * (100 - COMISSION)) \div 100]
      [] r = TeamB /\ c = TeamB ->
            IF b.balance_b = 0 THEN [panic |-> TRUE, v |-> 0]
            ELSE [panic |-> FALSE,
                  v |-> ((((1 * b.balance_a) * this_bet.amount) \div b.balance_b
                          + this_bet.amount) * (100 - COMISSION)) \div 100]
      [] r = Draw /\ c \in {TeamA, TeamB} ->
            [panic |-> FALSE, v |-> ((0 + this_bet.amount) * (100 - COMISSION)) \div 100]
      [] OTHER -> [panic |-> FALSE, v |-> 0]

settled(outcome) == outcome # Unknown

\* (the debit is guarded by the balance check and the credit stays in u64)
process_withdraw(betor, bets_info, this_bet_acc) ==
    LET b == events[bets_info]
        this_bet == bets[this_bet_acc]
        r == unpack_match_outcome(b.outcome)
        c == unpack_match_outcome(this_bet.outcome)
        w == withdraw_balance(b, this_bet, r.v, c.v)
        paid == w.v % U64Mod
    IN
    IF ~cmp_pubkeys(ProgramId, owner_of(bets_info)) THEN Fail("InvalidAccountData")
    ELSE IF ~cmp_pubkeys(bets_info, this_bet.event) THEN Fail("InvalidAccountData")
    ELSE IF this_bet.betor # betor THEN Fail("InvalidAccountData")
    ELSE IF ~r.ok THEN Fail(r.v)
    ELSE IF settled(r.v) THEN Fail("InvalidAccountData")
    ELSE IF ~c.ok THEN Fail(c.v)
    ELSE IF w.panic THEN Fail("Panic")
    ELSE IF w.v > lamports[bets_info] THEN Fail("InvalidAccountData")
    ELSE Done([lamports EXCEPT ![bets_info] = @ - paid, ![betor] = @ + paid],
              events,
              [bets EXCEPT ![this_bet_acc] =
                  [this_bet EXCEPT !.outcome = pack_match_outcome(Withdrawn)]])

\* ------------------------------------------------------------- the actions
RECURSIVE Total(_, _)
\* the lamports the accounts S hold in l
Total(l, S) ==
    IF S = {} THEN 0
    ELSE LET a == CHOOSE x \in S : TRUE IN l[a] + Total(l, S \ {a})

\* The program runs under the entrypoint: the host commits what a successful
\* instruction wrote only if the lamports of its accounts still add up, and
\* fails the instruction otherwise.
verify(r) ==
    IF r.ok /\ Total(r.lamports, Accounts) # Total(lamports, Accounts)
    THEN Fail("UnbalancedInstruction")
    ELSE r

Apply(result, call) ==
    LET r == verify(result) IN
    /\ lamports' = r.lamports
    /\ events' = r.events
    /\ bets' = r.bets
    /\ last' = [call EXCEPT !.ok = r.ok, !.err = r.err]
    /\ judged' = IF call.op = "SetWinner" /\ r.ok THEN judged \cup {call.event} ELSE judged
    /\ withdrawn' = IF call.op = "Withdraw" /\ r.ok THEN withdrawn \cup {call.bet}
                    ELSE withdrawn
    /\ UNCHANGED clock

Initialize ==
    \E owner \in Arbiters, is_signer \in BOOLEAN, bets_info \in Events,
       bets_accepted_until \in Deadlines :
        Apply(process_initialize(owner, is_signer, bets_info, bets_accepted_until),
              [NoCall EXCEPT !.op = "Initialize", !.who = owner,
                             !.signer = is_signer, !.event = bets_info])

AddBet ==
    \E betor \in Betors, bets_info_acc \in Events, this_bet_acc \in BetAccs,
       choice \in {Unknown, TeamA, TeamB, Draw}, overflow_checks \in BOOLEAN :
        Apply(process_add_bet(betor, bets_info_acc, this_bet_acc, choice, overflow_checks),
              [NoCall EXCEPT !.op = "AddBet", !.who = betor,
                             !.event = bets_info_acc, !.bet = this_bet_acc])

SetWinner ==
    \E owner \in Users, is_signer \in BOOLEAN, bets_info \in Events,
       result \in {Unknown, TeamA, TeamB, Draw} :
        Apply(process_set_winner(owner, is_signer, bets_info, result),
              [NoCall EXCEPT !.op = "SetWinner", !.who = owner,
                             !.signer = is_signer, !.event = bets_info])

Withdraw ==
    \E betor \in Users, bets_info \in Events, this_bet_acc \in BetAccs :
        Apply(process_withdraw(betor, bets_info, this_bet_acc),
              [NoCall EXCEPT !.op = "Withdraw", !.who = betor,
                             !.event = bets_info, !.bet = this_bet_acc])

\* the trusted clock advances
Tick ==
    /\ clock < MaxClock
    /\ clock' = clock + 1
    /\ last' = [NoCall EXCEPT !.op = "Tick"]
    /\ UNCHANGED <<lamports, events, bets, judged, withdrawn>>

Next ==
    \/ Initialize
    \/ AddBet
    \/ SetWinner
    \/ Withdraw
    \/ Tick

Spec == Init /\ [][Next]_vars

\* the same program when the second staging account holds exactly the rent
\* exemption minimum, or next to nothing
LowStakes == {BETS_RENT_EXCEMPTION, 5}

InitStakes ==
    /\ clock = 0
    /\ \E v \in LowStakes : lamports = [InitialLamports EXCEPT !["b2"] = v]
    /\ events = [e \in Events |-> EventBetsZero]
    /\ bets = [b \in BetAccs |-> BetZero]
    /\ last = NoCall
    /\ judged = {}
    /\ withdrawn = {}

SpecStakes == InitStakes /\ [][Next]_vars

\* only betting: events are created and bets are added while the clock runs
NextAddBet ==
    \/ Initialize
    \/ AddBet
    \/ Tick

SpecAddBet == Init /\ [][NextAddBet]_vars

\* ------------------------------------------------------------- properties
\* the step is the processing of instruction op (every action rewrites last)
Called(op) == last'.op = op

\* all accounts keep their lamports and their data
AccountsUnchanged == lamports' = lamports /\ events' = events /\ bets' = bets

RECURSIVE Stake(_)
\* the sum of amount over the bet accounts S
Stake(S) ==
    IF S = {} THEN 0
    ELSE LET b == CHOOSE x \in S : TRUE IN bets[b].amount + Stake(S \ {b})

\* the initialized Bets of event e whose stored choice is c
BetsOn(e, c) ==
    {b \in BetAccs : bets[b].is_initialized /\ bets[b].event = e
                       /\ bets[b].outcome = pack_match_outcome(c)}

\* C1: after any sequence of AddBet calls on an initialized event whose outcome
\* is Unknown, balance_a is the sum of amount over its TeamA Bets and balance_b the
\* sum over its TeamB Bets.
C1_PoolsAreSumOfBets ==
    \A e \in Events :
        (events[e].is_initialized /\ events[e].outcome = pack_match_outcome(Unknown))
        => /\ events[e].balance_a = Stake(BetsOn(e, TeamA))
           /\ events[e].balance_b = Stake(BetsOn(e, TeamB))

C3_AddBetAfterDeadlineFails ==
    [][(Called("AddBet") /\ clock > events[last'.event].bets_allowed_until_ts)
        => (~last'.ok /\ AccountsUnchanged)]_vars

C3_Witness ==
    /\ last.op = "AddBet" /\ ~last.ok
    /\ events[last.event].is_initialized
    /\ events[last.event].outcome = pack_match_outcome(Unknown)
    /\ ~bets[last.bet].is_initialized
    /\ clock > events[last.event].bets_allowed_until_ts

\* C4: a SetWinner whose authority is not the event's arbiter fails and leaves
\* the outcome and every account's lamports unchanged.
C4_SetWinnerByNonArbiterFails ==
    [][(Called("SetWinner") /\ last'.who # events[last'.event].arbiter)
        => (/\ ~last'.ok
            /\ events'[last'.event].outcome = events[last'.event].outcome
            /\ lamports' = lamports)]_vars

C4_Witness ==
    /\ last.op = "SetWinner" /\ ~last.ok /\ last.signer
    /\ events[last.event].is_initialized
    /\ clock >= events[last.event].bets_allowed_until_ts
    /\ last.who # events[last.event].arbiter

\* C5: once a Withdraw on a bet account has succeeded, every later Withdraw on
\* it fails and moves no lamports.
C5_WithdrawSingleUse ==
    [][(Called("Withdraw") /\ last'.bet \in withdrawn)
        => (~last'.ok /\ lamports' = lamports)]_vars

C5_Witness ==
    /\ last.op = "Withdraw" /\ ~last.ok
    /\ last.bet \in withdrawn
    /\ bets[last.bet].event = last.event
    /\ bets[last.bet].betor = last.who

\* the step is a Withdraw that names event e, an open Bet of e and that Bet's betor
RedeemCalled ==
    /\ Called("Withdraw")
    /\ bets[last'.bet].is_initialized
    /\ bets[last'.bet].event = last'.event
    /\ bets[last'.bet].betor = last'.who
    /\ bets[last'.bet].outcome \in {pack_match_outcome(TeamA), pack_match_outcome(TeamB)}

\* the step moves exactly n lamports from the event named to the betor named
Pays(n) ==
    /\ lamports'[last'.who] - lamports[last'.who] = n
    /\ lamports[last'.event] - lamports'[last'.event] = n

\* C6: on an event whose outcome is TeamA (TeamB) with pools A and B, the Withdraw
\* of an open Bet with stake s on the winning side moves
\* floor((s + floor(s*B/A)) * 97 / 100) lamports (A and B swapped for TeamB) from
\* the event to the betor, and the Withdraw of a Bet on the losing side moves 0.
C6_WinnerIsPaidShare ==
    [][(RedeemCalled /\ events[last'.event].outcome
                            \in {pack_match_outcome(TeamA), pack_match_outcome(TeamB)})
        => LET e == events[last'.event]
               s == bets[last'.bet].amount
               won == IF e.outcome = pack_match_outcome(TeamA)
                      THEN e.balance_a ELSE e.balance_b
               lost == IF e.outcome = pack_match_outcome(TeamA)
                       THEN e.balance_b ELSE e.balance_a
           IN IF bets[last'.bet].outcome = e.outcome
              THEN won > 0 /\ Pays(((s + (s * lost) \div won) * 97) \div 100)
              ELSE Pays(0)]_vars

\* C7: on an event whose outcome is Draw, the Withdraw of an open Bet on TeamA or
\* TeamB with stake s moves floor(s * 97 / 100) lamports from the event to the
\* betor.
C7_DrawRefundsStake ==
    [][(RedeemCalled /\ events[last'.event].outcome = pack_match_outcome(Draw))
        => Pays((bets[last'.bet].amount * 97) \div 100)]_vars

\* C8: in every reachable state the pools recorded in an event do not exceed the
\* lamports the event account holds.
C8_PoolsWithinHeldLamports ==
    \A e \in Events :
        events[e].is_initialized
        => events[e].balance_a + events[e].balance_b <= lamports[e]

\* C9: after a SetWinner has succeeded on an event, a Withdraw naming the event,
\* one of its Bets not yet withdrawn and that Bet's betor succeeds and marks the
\* Bet Withdrawn.
C9_RedeemableAfterSetWinner ==
    [][(RedeemCalled /\ last'.event \in judged)
        => (last'.ok /\ bets'[last'.bet].outcome = pack_match_outcome(Withdrawn))]_vars

\* C10: a Withdraw succeeds on a Bet only after a SetWinner has succeeded on the
\* Bet's event: no Bet is Withdrawn while its event's outcome is Unknown.
C10_WithdrawOnlyAfterSetWinner ==
    \A b \in BetAccs :
        (b \in withdrawn \/ bets[b].outcome = pack_match_outcome(Withdrawn))
        => (/\ bets[b].event \in judged
            /\ events[bets[b].event].outcome # pack_match_outcome(Unknown))

\* ------------------------------------------------ conservation of funds
\* what each handler leaves behind when it is called in the current state
HandlerResults ==
    {process_initialize(o, s, e, d) :
        o \in Arbiters, s \in BOOLEAN, e \in Events, d \in Deadlines}
    \cup {process_add_bet(o, e, b, c, f) :
        o \in Betors, e \in Events, b \in BetAccs,
        c \in {Unknown, TeamA, TeamB, Draw}, f \in BOOLEAN}
    \cup {process_set_winner(o, s, e, c) :
        o \in Users, s \in BOOLEAN, e \in Events, c \in {Unknown, TeamA, TeamB, Draw}}
    \cup {process_withdraw(o, e, b) : o \in Users, e \in Events, b \in BetAccs}

\* C11: whatever a handler does in a reachable state, with success or with
\* failure, the lamports it leaves in the accounts (events, staging and bet
\* accounts, betors, arbiter) add up to what they held before the call, for
\* every staging balance, the ones at or below the rent minimum included.
C11_HandlersConserveLamports ==
    \A r \in HandlerResults :
        Total(r.lamports, Accounts) = Total(lamports, Accounts)

\* ------------------------------------------- no partial write on failure
\* C12: whenever Initialize, AddBet, SetWinner or Withdraw fails, every field of
\* every event and bet account and the lamports of every account are what they
\* were before the call.
C12_FailureLeavesAccountsUnchanged ==
    [][(last'.op \in {"Initialize", "AddBet", "SetWinner", "Withdraw"} /\ ~last'.ok)
        => AccountsUnchanged]_vars

\* a SetWinner that failed on an event that holds a bet
C12_Witness ==
    /\ last.op = "SetWinner"
    /\ ~last.ok
    /\ last.signer
    /\ events[last.event].is_initialized
    /\ events[last.event].arbiter = last.who
    /\ clock >= events[last.event].bets_allowed_until_ts
    /\ events[last.event].balance_a > 0

\* ------------------------------------------------- decoding of a request
MaxInput == 3
Bytes == {0, 1, 2, 3, 4, 255}

RECURSIVE Strings(_)
\* the byte strings of n bytes
Strings(n) ==
    IF n = 0 THEN {<<>>}
    ELSE {<<b>> \o s : b \in Bytes, s \in Strings(n - 1)}

RECURSIVE to_le_bytes(_, _)
\* the n little-endian bytes of t >= 0
to_le_bytes(t, n) ==
    IF n = 0 THEN <<>> ELSE <<t % 256>> \o to_le_bytes(t \div 256, n - 1)

\* instruction data: every short byte string, and Initialize requests with a
\* whole timestamp, with and without bytes after it
Inputs ==
    UNION {Strings(n) : n \in 0..MaxInput}
    \cup {<<0>> \o to_le_bytes(t, 8) : t \in 0..MaxClock}
    \cup {<<0>> \o to_le_bytes(t, 8) \o <<b>> : t \in 0..MaxClock, b \in Bytes}

RECURSIVE from_le_bytes(_)
\* UnixTimestamp::from_le_bytes, for timestamps >= 0 (sign byte below 128)
from_le_bytes(s) ==
    IF s = <<>> THEN 0 ELSE Head(s) + 256 * from_le_bytes(Tail(s))

UnpackErr(e) == [ok |-> FALSE, panic |-> FALSE, v |-> e]
UnpackOk(i) == [ok |-> TRUE, panic |-> FALSE, v |-> i]
UnpackPanic == [ok |-> FALSE, panic |-> TRUE, v |-> "unreachable"]

\* Instruction::unpack: [ok, panic, v], v the instruction or the ProgramError
unpack(input) ==
    IF input = <<>> THEN UnpackErr("InvalidInstructionData")
    ELSE
    LET tag == Head(input)
        rest == Tail(input)
        outcome == unpack_match_outcome(Head(rest))
    IN
    CASE tag = 0 ->
            IF Len(rest) < 8 THEN UnpackErr("InvalidInstructionData")
            ELSE UnpackOk([op |-> "Initialize",
                           bets_accepted_until |-> from_le_bytes(SubSeq(rest, 1, 8))])
      [] tag = 1 ->
            IF rest = <<>> THEN UnpackErr("InvalidInstructionData")
            ELSE IF ~outcome.ok THEN UnpackErr(outcome.v)
            ELSE UnpackOk([op |-> "AddBet", choice |-> outcome.v])
      [] tag = 2 ->
            IF rest = <<>> THEN UnpackErr("InvalidInstructionData")
            ELSE IF ~outcome.ok THEN UnpackErr(outcome.v)
            ELSE UnpackOk([op |-> "SetWinner", result |-> outcome.v])
      [] tag = 3 -> UnpackOk([op |-> "Withdraw"])
      [] OTHER -> UnpackPanic

\* a request arrives at the entrypoint ...
InitUnpack ==
    /\ clock = 0
    /\ lamports = InitialLamports
    /\ events = [e \in Events |-> EventBetsZero]
    /\ bets = [b \in BetAccs |-> BetZero]
    /\ \E input \in Inputs : last = [op |-> "request", input |-> input]
    /\ judged = {}
    /\ withdrawn = {}

\* ... and process_instruction decodes it
Unpack ==
    /\ last.op = "request"
    /\ last' = [op |-> "unpack", input |-> last.input, result |-> unpack(last.input)]
    /\ UNCHANGED <<clock, lamports, events, bets, judged, withdrawn>>

SpecUnpack == InitUnpack /\ [][Unpack]_vars

\* C13: decoding never crashes: for every instruction data (empty, a tag
\* outside 0..3, a payload cut short, an outcome byte that is no outcome)
\* unpack returns an instruction or a ProgramError and does not panic.
C13_UnpackNeverPanics == last.op = "unpack" => ~last.result.panic

\* ------------------------------------------------ comission charged once
\* C14: in every reachable state, a SetWinner that succeeds records the result
\* it was given; on an event no SetWinner has succeeded on before it moves
\* floor(V * 3 / 100) lamports from the event account to the arbiter, V being
\* the lamports the event account holds, and on an event already judged it
\* moves no lamports at all.
C14_ComissionChargedOnce ==
    \A owner \in Users, is_signer \in BOOLEAN, e \in Events,
       result \in {Unknown, TeamA, TeamB, Draw} :
        LET r == process_set_winner(owner, is_signer, e, result)
            V == lamports[e]
            c == (V * COMISSION) \div 100
        IN r.ok =>
            /\ r.events[e].outcome = pack_match_outcome(result)
            /\ r.bets = bets
            /\ IF e \notin judged
               THEN r.lamports = [lamports EXCEPT ![e] = V - c, ![owner] = @ + c]
               ELSE r.lamports = lamports

\* the arbiter has been paid the comission of an event, and a further SetWinner
\* with another result would succeed on it
C14_Witness ==
    /\ last.op = "SetWinner"
    /\ last.ok
    /\ last.event \in judged
    /\ lamports[last.who] > 0
    /\ \E result \in {TeamA, TeamB, Draw} :
        /\ process_set_winner(last.who, TRUE, last.event, result).ok
        /\ pack_match_outcome(result) # events[last.event].outcome

\* ---------------------------------------------------- rent exemption floor
\* C15: a successful SetWinner leaves the event account holding at least the
\* rent exemption minimum that Initialize required of it (no successful
\* operation takes an account below its minimum; one that would fails).
C15_SetWinnerKeepsRentExemption ==
    [][(Called("SetWinner") /\ last'.ok)
        => lamports'[last'.event] >= EVENT_RENT_EXEMPTION]_vars

\* ------------------------------------------------------- AddBet's effect
\* C16: a successful AddBet from a staging account holding v lamports with
\* choice c (TeamA or TeamB) writes a bet of amount v - BETS_RENT_EXCEMPTION on
\* c for the betor and the event, adds that amount to the pool of side c and to
\* the lamports of the event account, leaves the other pool alone and leaves
\* the staging account holding exactly BETS_RENT_EXCEMPTION.
C16_AddBetRecordsStake ==
    [][(Called("AddBet") /\ last'.ok) =>
        LET e == last'.event
            b == last'.bet
            amount == lamports[b] - BETS_RENT_EXCEMPTION
            c == bets'[b].outcome
        IN
        /\ c \in {pack_match_outcome(TeamA), pack_match_outcome(TeamB)}
        /\ bets'[b] = [is_initialized |-> TRUE, betor |-> last'.who, event |-> e,
                       amount |-> amount, outcome |-> c]
        /\ events'[e].balance_a =
              events[e].balance_a + (IF c = pack_match_outcome(TeamA) THEN amount ELSE 0)
        /\ events'[e].balance_b =
              events[e].balance_b + (IF c = pack_match_outcome(TeamB) THEN amount ELSE 0)
        /\ lamports'[e] = lamports[e] + amount
        /\ lamports'[b] = BETS_RENT_EXCEMPTION]_vars

\* ------------------------------------------------ AddBet needs a real stake
\* C17: AddBet succeeds only from a staging account holding strictly more than
\* BETS_RENT_EXCEMPTION; from one holding that much or less it fails, with no
\* bet written and no pool changed.
C17_AddBetNeedsStakeAboveRent ==
    [][Called("AddBet") =>
        /\ last'.ok => lamports[last'.bet] > BETS_RENT_EXCEMPTION
        /\ lamports[last'.bet] <= BETS_RENT_EXCEMPTION =>
              (bets' = bets /\ events' = events)]_vars

\* ------------------------------------------- betting closes at settlement
\* C18: once a SetWinner has succeeded on an event, every AddBet on that event
\* fails, at every clock value, the deadline itself included; and no step
\* changes balance_a or balance_b of an event whose outcome is not Unknown.
C18_NoBetsAfterSetWinner ==
    [][/\ (Called("AddBet") /\ last'.event \in judged) => (~last'.ok /\ AccountsUnchanged)
       /\ \A e \in Events :
            events[e].outcome # pack_match_outcome(Unknown) =>
                /\ events'[e].balance_a = events[e].balance_a
                /\ events'[e].balance_b = events[e].balance_b]_vars

\* an AddBet refused on a judged event while the clock is still at the deadline
\* and the bet account is fresh
C18_Witness ==
    /\ last.op = "AddBet"
    /\ ~last.ok
    /\ last.event \in judged
    /\ clock = events[last.event].bets_allowed_until_ts
    /\ ~bets[last.bet].is_initialized
    /\ lamports[last.bet] > BETS_RENT_EXCEMPTION

\* ------------------------------------------ pools against the open bets
\* the bets placed on side c of event e that have not been withdrawn
OpenBets(e, c) ==
    {b \in BetAccs :
        /\ bets[b].is_initialized
        /\ bets[b].event = e
        /\ bets[b].outcome # pack_match_outcome(Withdrawn)
        /\ bets[b].outcome = pack_match_outcome(c)}

\* C19: in every reachable state, under any interleaving of the operations, an
\* event whose outcome is Unknown has balance_a equal to the sum of the amounts
\* of its open (initialized, not withdrawn) TeamA bets and balance_b equal to
\* that of its open TeamB bets.
C19_PoolsAreSumOfOpenBets ==
    \A e \in Events :
        (events[e].is_initialized /\ events[e].outcome = pack_match_outcome(Unknown)) =>
            /\ events[e].balance_a = Stake(OpenBets(e, TeamA))
            /\ events[e].balance_b = Stake(OpenBets(e, TeamB))

\* ------------------------------------------------- solvency after judgement
\* what Withdraw's formula pays bet account a of event e under the recorded outcome
Payout(e, a) ==
    withdraw_balance(events[e], bets[a],
                     unpack_match_outcome(events[e].outcome).v,
                     unpack_match_outcome(bets[a].outcome).v).v

RECURSIVE Payouts(_, _)
Payouts(e, S) ==
    IF S = {} THEN 0
    ELSE LET a == CHOOSE x \in S : TRUE IN Payout(e, a) + Payouts(e, S \ {a})

\* C20: in every reachable state an event whose outcome is TeamA, TeamB or Draw
\* holds at least the lamports that Withdraw's formula pays, under that
\* outcome, to all its bets not yet withdrawn together.
C20_EventCoversOpenPayouts ==
    \A e \in Events :
        (events[e].is_initialized
            /\ events[e].outcome \in {pack_match_outcome(TeamA), pack_match_outcome(TeamB),
                                      pack_match_outcome(Draw)})
        => lamports[e] >= Payouts(e, OpenBets(e, TeamA) \cup OpenBets(e, TeamB))

====
